---- MODULE Spec2Model ----
(***************************************************************************)
(* Outcome statistics of niklas-fischer/safehaven: the Bet and             *)
(* BetComparison classes of modules/bet.py, the dictionary based blend     *)
(* functions and the plots of modules/kellycriterion.py and                *)
(* modules/nietzschesdemon.py, the return tables of modules/sp500.py and   *)
(* modules/xo.py, and the recovery chart of modules/petersburgmerchant.py  *)
(* and modules/plotmachine.py.                                             *)
(*                                                                         *)
(* Numbers.  A Python float is modelled as a fixed-point integer counting  *)
(* millionths (1.5 is 1500000); an operation whose exact result is not a   *)
(* millionth rounds it to the nearest one, ties to even, the way IEEE-754  *)
(* arithmetic rounds on its own grid; NaN is a value of its own.  A        *)
(* percentage such as arith_mean is a float as well (50 % is 50000000).    *)
(***************************************************************************)
EXTENDS Integers, Sequences, FiniteSets, TLC

VARIABLES a, b, pc, last, frame

vars == <<a, b, pc, last, frame>>

----------------------------------------------------------------------------
(* Python values *)

None == [t |-> "NoneType"]

PyStr(s) == [t |-> "str", s |-> s]

PyInt(n) == [t |-> "int", v |-> n]

PyFloat(m) == [t |-> "float", v |-> m]

PyList(q) == [t |-> "list", v |-> q]

isinstance(x, cls) == x.t = cls

\* str.lower on the names the model uses
lower(s) ==
    CASE s = "A" -> "a"
      [] s = "B" -> "b"
      [] OTHER -> s

----------------------------------------------------------------------------
(* Fixed-point floats *)

\* one, in millionths
MICRO == 1000 * 1000

\* the limb of FMul
KILO == 10 * 100

NaN == [t |-> "nan"]

Num(x) == [t |-> "num", v |-> x]

isnan(x) == x.t = "nan"

Abs(x) == IF x < 0 THEN -x ELSE x

\* p / q rounded to the nearest integer, ties to the even one (q > 0)
RDiv(p, q) ==
    LET f == p \div q
        r == p % q
    IN  IF 2 * r > q \/ (2 * r = q /\ f % 2 = 1) THEN f + 1 ELSE f

\* x * y of two floats: x * y / MICRO rounded to the nearest millionth, ties
\* to even, computed limb by limb so that no intermediate value leaves 32 bits
FMul(x, y) ==
    LET x1 == x \div KILO
        x0 == x % KILO
        y1 == y \div KILO
        y0 == y % KILO
        u  == x0 * y0
        s  == x1 * y0 + x0 * y1 + (u \div KILO)
        q  == x1 * y1 + (s \div KILO)
        r  == (s % KILO) * KILO + (u % KILO)
    IN  IF 2 * r > MICRO \/ (2 * r = MICRO /\ q % 2 = 1) THEN q + 1 ELSE q

\* arithmetic on a float that may be NaN
NSub(x, y) == IF isnan(x) \/ isnan(y) THEN NaN ELSE Num(x.v - y.v)

RECURSIVE SeqSum(_)
SeqSum(s) == IF s = <<>> THEN 0 ELSE Head(s) + SeqSum(Tail(s))

\* log(2)
LN2 == 693147

\* u - u^2/2 + u^3/3 - ... from the term of degree n on, pw being u^n
RECURSIVE log1p_series(_, _, _)
log1p_series(u, pw, n) ==
    IF pw = 0 THEN 0
    ELSE (IF n % 2 = 1 THEN RDiv(pw, n) ELSE -RDiv(pw, n))
         + log1p_series(u, FMul(pw, u), n + 1)

\* numpy.log of a float x > 0: x is halved or doubled into [0.75, 1.5), and
\* the logarithm of that is summed from its series
RECURSIVE log(_)
log(x) ==
    IF x >= 3 * (MICRO \div 2) THEN log(RDiv(x, 2)) + LN2
    ELSE IF 4 * x < 3 * MICRO THEN log(2 * x) - LN2
    ELSE log1p_series(x - MICRO, x - MICRO, 1)

\* 1 + y + y^2/2! + ... from the term of degree n on, term being y^n/n!
RECURSIVE exp_series(_, _, _)
exp_series(y, term, n) ==
    IF term = 0 THEN 0
    ELSE term + exp_series(y, RDiv(FMul(term, y), n + 1), n + 1)

\* numpy.exp of a float: log(2) is taken off or added until |y| <= log(2)/2,
\* and the exponential of that is summed from its series
RECURSIVE exp(_)
exp(y) ==
    IF 2 * y > LN2 THEN 2 * exp(y - LN2)
    ELSE IF 2 * y < -LN2 THEN RDiv(exp(y + LN2), 2)
    ELSE exp_series(y, MICRO, 0)

\* numpy.mean of a non-empty float array
mean(arr) == RDiv(SeqSum(arr), Len(arr))

\* gmean with a zero treated like a negative number
gmean_zero_nan(arr) ==
    IF \E i \in 1..Len(arr) : arr[i] <= 0 THEN NaN
    ELSE Num(exp(mean([i \in 1..Len(arr) |-> log(arr[i])])))

\* scipy gmean, exp(mean(log(arr))): log of a negative number is NaN, log(0)
\* is -inf and exp(-inf) is 0; neither raises
gmean(arr) ==
    IF \E i \in 1..Len(arr) : arr[i] < 0 THEN NaN
    ELSE IF \E i \in 1..Len(arr) : arr[i] = 0 THEN Num(0)
    ELSE Num(exp(mean([i \in 1..Len(arr) |-> log(arr[i])])))

\* x * 100, the neutral value 1 not taken off
PercentOfGross(x) == x * 100

\* (x - 1) * 100
Percent(x) == (x - MICRO) * 100

NPercent(x) == IF isnan(x) THEN NaN ELSE Num(Percent(x.v))

----------------------------------------------------------------------------
(* What a call gives its caller: the value returned or the exception raised *)

Value(v) == [exc |-> "", msg |-> "", val |-> v]

Raise(e, m) == [exc |-> e, msg |-> m, val |-> None]

----------------------------------------------------------------------------
(* class Bet *)

\* repeat with the count dropped: the value once
repeat_once(x, n) == <<x>>

\* numpy.repeat(x, n)
RECURSIVE repeat(_, _)
repeat(x, n) == IF n <= 0 THEN <<>> ELSE <<x>> \o repeat(x, n - 1)

\* the loop of Bet.calculate_outcomes over i = from .. len(weights)
RECURSIVE outcomes_loop(_, _, _, _)
outcomes_loop(results, weights, i, outcomes) ==
    IF i > Len(weights) THEN outcomes
    ELSE outcomes_loop(results, weights, i + 1,
                       outcomes \o repeat(results[i], weights[i]))

\* the loop with the operands of concatenate exchanged
RECURSIVE outcomes_loop_prepend(_, _, _, _)
outcomes_loop_prepend(results, weights, i, outcomes) ==
    IF i > Len(weights) THEN outcomes
    ELSE outcomes_loop_prepend(results, weights, i + 1,
                               repeat(results[i], weights[i]) \o outcomes)

calculate_outcomes_prepend(results, weights) ==
    outcomes_loop_prepend(results, weights, 1, <<>>)

calculate_outcomes(results, weights) == outcomes_loop(results, weights, 1, <<>>)

calculate_arith_mean(outcomes) == Percent(mean(outcomes))

calculate_geom_mean(outcomes) == NPercent(gmean(outcomes))

MinResults == 1

MaxResults == 6

\* the third assertion of Bet.__init__
NameIsStr(name) == isinstance(name, "str")

\* the fourth assertion of Bet.__init__
WeightsValid(weights) ==
    \A i \in 1..Len(weights) : isinstance(weights[i], "int") /\ weights[i].v >= 1

\* the second assertion with <= 6 off by one
LengthValid_upto7(results) ==
    Len(results) >= MinResults /\ Len(results) <= MaxResults + 1

\* the second assertion of Bet.__init__
LengthValid(results) == Len(results) >= MinResults /\ Len(results) <= MaxResults

\* self.name = name.lower()
BetName(name) == lower(name.s)

\* Bet(name, results, weights): results a list of floats, weights a list of
\* Python numbers, name any Python value
Bet(name, results, weights) ==
    IF Len(results) # Len(weights)
    THEN Raise("AssertionError", "Results and weights must have the same length.")
    ELSE IF ~LengthValid(results)
    THEN Raise("AssertionError", "Results must have 1 to 6 elements.")
    ELSE IF ~NameIsStr(name)
    THEN Raise("AssertionError", "Name must be a string.")
    ELSE IF ~WeightsValid(weights)
    THEN Raise("AssertionError", "All elements in weights must be integers greater or equal to 1.")
    ELSE LET w == [i \in 1..Len(weights) |-> weights[i].v]
             o == calculate_outcomes(results, w)
         IN  Value([t |-> "Bet",
                     name |-> BetName(name),
                     results |-> results,
                     weights |-> w,
                     outcomes |-> o,
                     arith_mean |-> calculate_arith_mean(o),
                     geom_mean |-> calculate_geom_mean(o)])

\* the attributes of the object under construction, in the order of their
\* assignment, when Bet.__init__ ends: the four asserts stand before the
\* first assignment, and nothing after them raises
Bet_self(name, results, weights) ==
    IF \/ Len(results) # Len(weights)
       \/ ~LengthValid(results)
       \/ ~NameIsStr(name)
       \/ ~WeightsValid(weights)
    THEN <<>>
    ELSE <<"name", "results", "weights", "outcomes", "arith_mean", "geom_mean">>

----------------------------------------------------------------------------
(* numpy arrays of one dimension *)

\* c * arr
scale(c, arr) == [i \in 1..Len(arr) |-> FMul(c, arr[i])]

\* whether x + y broadcasts: equal shapes, or one of them of length 1
broadcasts(x, y) == Len(x) = Len(y) \/ Len(x) = 1 \/ Len(y) = 1

at(x, i) == IF Len(x) = 1 THEN x[1] ELSE x[i]

\* x + y where it broadcasts
add(x, y) ==
    LET n == IF Len(x) >= Len(y) THEN Len(x) ELSE Len(y)
    IN  [i \in 1..n |-> at(x, i) + at(y, i)]

\* 1 / rtol of numpy.isclose (rtol = 1e-05)
IscloseInvRtol == 100 * 1000

\* atol / rtol of numpy.isclose (atol = 1e-08), a float: 0.001
IscloseAtolByRtol == MICRO \div KILO

\* isclose without any tolerance: plain equality
isclose_exact(x, y) == x = y

\* isclose with rtol = 0.1
isclose_loose(x, y) == Abs(x - y) <= (IscloseAtolByRtol + Abs(y)) \div 10

\* numpy.isclose(x, y): |x - y| <= atol + rtol * |y|
isclose(x, y) == Abs(x - y) <= (IscloseAtolByRtol + Abs(y)) \div IscloseInvRtol

----------------------------------------------------------------------------
(* An object's __dict__: a list of <<key, value>> pairs in insertion order *)

KeyEq(k1, k2) == k1.t = k2.t /\ k1 = k2

HasKey(d, k) == \E i \in 1..Len(d) : KeyEq(d[i][1], k)

GetItem(d, k) == d[CHOOSE i \in 1..Len(d) : KeyEq(d[i][1], k)][2]

SetItem(d, k, v) ==
    IF HasKey(d, k)
    THEN [i \in 1..Len(d) |-> IF KeyEq(d[i][1], k) THEN <<k, v>> ELSE d[i]]
    ELSE Append(d, <<k, v>>)

\* self.<attr>
GetAttr(d, attr) == GetItem(d, PyStr(attr))

SetAttr(d, attr, v) == SetItem(d, PyStr(attr), v)

----------------------------------------------------------------------------
(* class BetComparison *)

\* self.__dict__[self.bet1_name] and self.__dict__[self.bet2_name], as
\* weighted_average reads them
LookupBet(self, attr) == GetItem(self, GetAttr(self, attr))

\* the blend of line 129, both operands being Bet objects
blend(self) ==
    LET ratio == GetAttr(self, "ratio").v
    IN  add(scale(ratio[1], LookupBet(self, "bet1_name").outcomes),
            scale(ratio[2], LookupBet(self, "bet2_name").outcomes))

\* BetComparison.weighted_average: the tuple it returns, or what it raises
weighted_average(self) ==
    IF ~HasKey(self, GetAttr(self, "bet1_name"))
    THEN Raise("KeyError", "bet1_name")
    ELSE IF ~isinstance(LookupBet(self, "bet1_name"), "Bet")
    THEN Raise("AttributeError", "outcomes")
    ELSE IF ~HasKey(self, GetAttr(self, "bet2_name"))
    THEN Raise("KeyError", "bet2_name")
    ELSE IF ~isinstance(LookupBet(self, "bet2_name"), "Bet")
    THEN Raise("AttributeError", "outcomes")
    ELSE IF ~broadcasts(LookupBet(self, "bet1_name").outcomes,
                        LookupBet(self, "bet2_name").outcomes)
    THEN Raise("ValueError", "operands could not be broadcast together")
    ELSE LET bet1 == LookupBet(self, "bet1_name")
             bet2 == LookupBet(self, "bet2_name")
             results == blend(self)
             arith_mean_combined == Percent(mean(results))
             geom_mean_combined == NPercent(gmean(results))
             cost == arith_mean_combined - bet1.arith_mean - bet2.arith_mean
             net == NSub(NSub(geom_mean_combined, bet1.geom_mean), bet2.geom_mean)
         IN  Value(<<arith_mean_combined, geom_mean_combined, cost, net, results>>)

\* the attribute assignments of BetComparison.__init__, lines 108 to 112
init_fields(bet1, bet2, ratio) ==
    LET d1 == SetAttr(<<>>, "bet1_name", PyStr(bet1.name))
        d2 == SetAttr(d1, "bet2_name", PyStr(bet2.name))
        d3 == SetItem(d2, GetAttr(d2, "bet1_name"), bet1)
        d4 == SetItem(d3, GetAttr(d3, "bet2_name"), bet2)
    IN  SetAttr(d4, "ratio", PyList(ratio))

\* the tuple assignment of line 113
store_results(self, tup) ==
    LET d1 == SetAttr(self, "arith_mean_combined", tup[1])
        d2 == SetAttr(d1, "geom_mean_combined", tup[2])
        d3 == SetAttr(d2, "cost", tup[3])
        d4 == SetAttr(d3, "net", tup[4])
    IN  SetAttr(d4, "results", tup[5])

\* BetComparison(bet1, bet2, ratio): ratio a list of floats
BetComparison(bet1, bet2, ratio) ==
    IF ~isinstance(bet1, "Bet")
    THEN Raise("AssertionError", "bet1 must be an instance of the Bet class.")
    ELSE IF ~isinstance(bet2, "Bet")
    THEN Raise("AssertionError", "bet2 must be an instance of the Bet class.")
    ELSE IF Len(ratio) # 2
    THEN Raise("AssertionError", "Ratio must have exactly two elements.")
    ELSE IF ~isclose(SeqSum(ratio), MICRO)
    THEN Raise("AssertionError", "The elements of ratio must sum up to 1.")
    ELSE LET self == init_fields(bet1, bet2, ratio)
             r == weighted_average(self)
         IN  IF r.exc # "" THEN r
             ELSE Value([t |-> "BetComparison", dict |-> store_results(self, r.val)])

\* the __dict__ of the object under construction when BetComparison.__init__
\* ends: empty when an assert fails, the assignments of lines 108 to 112 when
\* weighted_average raises, and all of them otherwise
BetComparison_self(bet1, bet2, ratio) ==
    IF \/ ~isinstance(bet1, "Bet")
       \/ ~isinstance(bet2, "Bet")
       \/ Len(ratio) # 2
       \/ ~isclose(SeqSum(ratio), MICRO)
    THEN <<>>
    ELSE LET self == init_fields(bet1, bet2, ratio)
             r == weighted_average(self)
         IN  IF r.exc # "" THEN self ELSE store_results(self, r.val)

----------------------------------------------------------------------------
(* modules/kellycriterion.py: the blend on plain outcome arrays *)

\* dice_to_cash_ratio[0] * dice_outcomes + dice_to_cash_ratio[1] * cash_outcomes,
\* or what evaluating it raises
ratio_blend(dice_outcomes, cash_outcomes, dice_to_cash_ratio) ==
    IF Len(dice_to_cash_ratio) < 2
    THEN Raise("IndexError", "list index out of range")
    ELSE IF ~broadcasts(dice_outcomes, cash_outcomes)
    THEN Raise("ValueError", "operands could not be broadcast together")
    ELSE Value(add(scale(dice_to_cash_ratio[1], dice_outcomes),
                   scale(dice_to_cash_ratio[2], cash_outcomes)))

\* the loop of _weighted_average over zip(dice_outcomes, cash_outcomes), which
\* ends with the shorter of the two
zip_blend(dice_outcomes, cash_outcomes, dice_weight, cash_weight) ==
    LET n == IF Len(dice_outcomes) < Len(cash_outcomes)
             THEN Len(dice_outcomes) ELSE Len(cash_outcomes)
    IN  [i \in 1..n |-> FMul(dice_outcomes[i], dice_weight)
                        + FMul(cash_outcomes[i], cash_weight)]

_weighted_average(dice_outcomes, cash_outcomes, dice_to_cash_ratio) ==
    IF Len(dice_outcomes) # Len(cash_outcomes)
    THEN Raise("AssertionError", "The first two arrays must have the same length")
    ELSE IF Len(dice_to_cash_ratio) # 2
    THEN Raise("AssertionError", "The ratio array must have exactly two elements")
    ELSE Value(zip_blend(dice_outcomes, cash_outcomes,
                         dice_to_cash_ratio[1], dice_to_cash_ratio[2]))

combined_outcomes(dice_outcomes, cash_outcomes, dice_to_cash_ratio) ==
    ratio_blend(dice_outcomes, cash_outcomes, dice_to_cash_ratio)

weighted_arith_mean(dice_outcomes, cash_outcomes, dice_to_cash_ratio) ==
    LET arith_mean_dice == Percent(mean(dice_outcomes))
        arith_mean_cash == Percent(mean(cash_outcomes))
        combined == ratio_blend(dice_outcomes, cash_outcomes, dice_to_cash_ratio)
    IN  IF combined.exc # "" THEN combined
        ELSE LET arith_mean_combined == Percent(mean(combined.val))
                 cost == arith_mean_combined - arith_mean_dice - arith_mean_cash
             IN  Value([t |-> "dict",
                        arith_mean_dice |-> arith_mean_dice,
                        arith_mean_cash |-> arith_mean_cash,
                        arith_mean_combined |-> arith_mean_combined,
                        cost |-> cost])

weighted_geom_mean(dice_outcomes, cash_outcomes, dice_to_cash_ratio) ==
    IF Len(dice_outcomes) # Len(cash_outcomes)
    THEN Raise("AssertionError", "Arrays must be of the same length.")
    ELSE IF ~isclose(SeqSum(dice_to_cash_ratio), MICRO)
    THEN Raise("AssertionError", "Ratio must sum to 1.")
    ELSE LET geom_mean_dice == NPercent(gmean(dice_outcomes))
             geom_mean_cash == NPercent(gmean(cash_outcomes))
             combined == ratio_blend(dice_outcomes, cash_outcomes, dice_to_cash_ratio)
         IN  IF combined.exc # "" THEN combined
             ELSE LET geom_mean_combined == NPercent(gmean(combined.val))
                      net == NSub(NSub(geom_mean_combined, geom_mean_dice), geom_mean_cash)
                  IN  Value([t |-> "dict",
                             geom_mean_dice |-> geom_mean_dice,
                             geom_mean_cash |-> geom_mean_cash,
                             geom_mean_combined |-> geom_mean_combined,
                             net |-> net])

\* the smallest integer >= p / q (q > 0)
CeilDiv(p, q) == -((-p) \div q)

\* arange without its last value
arange_short(start, stop, step) ==
    LET n == IF step > 0 THEN CeilDiv(stop - start, step)
             ELSE CeilDiv(start - stop, -step)
    IN  [k \in 1..(n - 1) |-> start + (k - 1) * step]

\* numpy.arange(start, stop, step) for a step that is not 0:
\* ceil((stop - start) / step) values start, start + step, ...
arange(start, stop, step) ==
    LET n == IF step > 0 THEN CeilDiv(stop - start, step)
             ELSE CeilDiv(start - stop, -step)
    IN  [k \in 1..n |-> start + (k - 1) * step]

\* x > y of two floats, false when either is NaN
gt(x, y) == ~isnan(x) /\ ~isnan(y) /\ x.v > y.v

\* Python's max of a non-empty list of floats.  max keeps the first item and
\* replaces it by a later one only if item > kept: a NaN at the head is kept
\* to the end, a NaN further on never replaces anything, and otherwise the
\* result is the largest number of the list.
max(s) ==
    IF isnan(s[1]) THEN s[1]
    ELSE s[CHOOSE k \in 1..Len(s) :
               ~isnan(s[k]) /\ \A j \in 1..Len(s) : ~gt(s[j], s[k])]

\* the last position holding x instead of the first
index_last(s, x) == CHOOSE i \in 1..Len(s) : s[i] = x /\ \A j \in (i + 1)..Len(s) : s[j] # x

\* list.index(x) of an item max took from the list, counted from 1: the first
\* position holding that object or an equal one.  max returns a NaN only
\* from position 1, so the first NaN is that very object.
index(s, x) == CHOOSE i \in 1..Len(s) : s[i] = x /\ \A j \in 1..(i - 1) : s[j] # x

\* the ratios of plot_kelly_optimal: np.arange(0, 1.01, 0.01)
KellyStep == MICRO \div 100

KellyStop == MICRO + KellyStep

----------------------------------------------------------------------------
(* The inputs of the calls *)

\* the longest results and weights lists enumerated value by value
MaxLen == 2

\* the largest weight
MaxWeight == 2

Half == MICRO \div 2

\* -0.5, 0.0, 0.5, 1.0 and 1.5
ResultVals == {-Half, 0, Half, MICRO, 3 * Half}

\* the longest outcomes array of the bets a session blends
MaxOutcomes == 3

\* the outcome values of the bets a session blends: 0.0 and 1.5
SessionVals == {0, 3 * Half}

\* -1, 0, 1, ... as Python ints, 1.0 and 1.5 as Python floats
WeightVals == {PyInt(n) : n \in -1..MaxWeight} \cup {PyFloat(MICRO), PyFloat(3 * Half)}

SeqsUpTo(S, n) == UNION {[1..k -> S] : k \in 0..n}

\* lists of x longer than MaxLen, up to one more than Bet accepts
Padded(x) == {[i \in 1..k |-> x] : k \in (MaxLen + 1)..(MaxResults + 1)}

ResultLists == SeqsUpTo(ResultVals, MaxLen) \cup Padded(MICRO)

WeightLists == SeqsUpTo(WeightVals, MaxLen) \cup Padded(PyInt(1))

\* three texts and a number
Names == {PyStr("a"), PyStr("A"), PyStr("b"), PyInt(7)}

SessionNames == {PyStr("a"), PyStr("A"), PyStr("b")}

SessionResultLists == SeqsUpTo(SessionVals, MaxLen) \ {<<>>}

SessionWeightLists ==
    {w \in SeqsUpTo({PyInt(n) : n \in 1..MaxWeight}, MaxLen) \ {<<>>} :
        SeqSum([i \in 1..Len(w) |-> w[i].v]) <= MaxOutcomes}

\* [1, 0], [0.5, 0.5], [1.5, -0.5], [0.6, 0.5], [0.5, 0.500005],
\* [0.5, 0.50001], [0.5, 0.500011], [1] and [0.5, 0.25, 0.25]
Ratios ==
    { <<MICRO, 0>>, <<Half, Half>>, <<3 * Half, -Half>>,
      <<6 * (MICRO \div 10), Half>>, <<Half, Half + 5>>, <<Half, Half + 10>>,
      <<Half, Half + 11>>, <<MICRO>>, <<Half, Half \div 2, Half \div 2>> }

----------------------------------------------------------------------------
(* The caller: it holds two names, a and b, for the bets it has built, and *)
(* makes one call at a time; last is the call it made and what came back,  *)
(* for a constructor also self, the object as __init__ left it.            *)

NoCall == [op |-> ""]

\* no call is running
NoFrame == [fn |-> ""]

Init ==
    /\ a = None
    /\ b = None
    /\ pc = "idle"
    /\ last = NoCall
    /\ frame = NoFrame

\* the caller has built both of its bets
BothBuilt == isinstance(a, "Bet") /\ isinstance(b, "Bet")

\* slot = Bet(name, results, weights), slot being a, b or "" (the object is
\* not kept)
Build(slot, name, results, weights) ==
    /\ pc = "idle"
    /\ slot = "a" => a = None
    /\ slot = "b" => b = None
    /\ LET r == Bet(name, results, weights)
       IN  /\ last' = [op |-> "Bet", name |-> name, results |-> results,
                       weights |-> weights, res |-> r,
                       self |-> Bet_self(name, results, weights)]
           /\ a' = IF slot = "a" /\ r.exc = "" THEN r.val ELSE a
           /\ b' = IF slot = "b" /\ r.exc = "" THEN r.val ELSE b
    /\ pc' = "returned"
    /\ UNCHANGED frame

\* BetComparison(a, b, ratio)
Combine(ratio) ==
    /\ pc = "idle"
    /\ last' = [op |-> "BetComparison", ratio |-> ratio,
                res |-> BetComparison(a, b, ratio),
                self |-> BetComparison_self(a, b, ratio)]
    /\ pc' = "returned"
    /\ UNCHANGED <<a, b, frame>>

\* weighted_arith_mean(a.outcomes, b.outcomes, ratio)
ArithMean(ratio) ==
    /\ pc = "idle"
    /\ isinstance(a, "Bet") /\ isinstance(b, "Bet")
    /\ last' = [op |-> "weighted_arith_mean", ratio |-> ratio,
                res |-> weighted_arith_mean(a.outcomes, b.outcomes, ratio)]
    /\ pc' = "returned"
    /\ UNCHANGED <<a, b, frame>>

\* weighted_geom_mean(a.outcomes, b.outcomes, ratio)
GeomMean(ratio) ==
    /\ pc = "idle"
    /\ isinstance(a, "Bet") /\ isinstance(b, "Bet")
    /\ last' = [op |-> "weighted_geom_mean", ratio |-> ratio,
                res |-> weighted_geom_mean(a.outcomes, b.outcomes, ratio)]
    /\ pc' = "returned"
    /\ UNCHANGED <<a, b, frame>>

\* _weighted_average(a.outcomes, b.outcomes, ratio)
WeightedAverage(ratio) ==
    /\ pc = "idle"
    /\ isinstance(a, "Bet") /\ isinstance(b, "Bet")
    /\ last' = [op |-> "_weighted_average", ratio |-> ratio,
                res |-> _weighted_average(a.outcomes, b.outcomes, ratio)]
    /\ pc' = "returned"
    /\ UNCHANGED <<a, b, frame>>

\* combined_outcomes(a.outcomes, b.outcomes, ratio)
CombinedOutcomes(ratio) ==
    /\ pc = "idle"
    /\ isinstance(a, "Bet") /\ isinstance(b, "Bet")
    /\ last' = [op |-> "combined_outcomes", ratio |-> ratio,
                res |-> combined_outcomes(a.outcomes, b.outcomes, ratio)]
    /\ pc' = "returned"
    /\ UNCHANGED <<a, b, frame>>

\* the caller has looked at what came back and goes on
Resume ==
    /\ pc = "returned"
    /\ pc' = "idle"
    /\ last' = NoCall
    /\ UNCHANGED <<a, b, frame>>

\* a call is made only by a caller that is idle: the guard of the four calls
\* stands in front of the choice of their arguments as well
Next ==
    \/ /\ pc = "idle"
       /\ \E slot \in {"a", "b"}, name \in SessionNames,
             results \in SessionResultLists, weights \in SessionWeightLists :
               Build(slot, name, results, weights)
    \/ pc = "idle" /\ \E ratio \in Ratios : Combine(ratio)
    \/ pc = "idle" /\ \E ratio \in Ratios : ArithMean(ratio)
    \/ pc = "idle" /\ \E ratio \in Ratios : GeomMean(ratio)
    \/ pc = "idle" /\ \E ratio \in Ratios : WeightedAverage(ratio)
    \/ pc = "idle" /\ \E ratio \in Ratios : CombinedOutcomes(ratio)
    \/ Resume

Spec == Init /\ [][Next]_vars

\* the constructor alone, on every input
NextBuild ==
    \/ /\ pc = "idle"
       /\ \E name \in Names, results \in ResultLists, weights \in WeightLists :
             Build("", name, results, weights)
    \/ Resume

SpecBuild == Init /\ [][NextBuild]_vars

----------------------------------------------------------------------------
(* modules/kellycriterion.py, plot_kelly_optimal(dice_outcomes,            *)
(* cash_outcomes): frame holds its locals while it runs, one step of the   *)
(* caller's thread per iteration of its loop.  What it draws is kept with  *)
(* the call in last.fig; it returns None.                                  *)

\* the call: ratios and geom_means are set up
KellyStart(dice_outcomes, cash_outcomes) ==
    /\ pc = "idle"
    /\ frame' = [fn |-> "plot_kelly_optimal",
                 dice_outcomes |-> dice_outcomes,
                 cash_outcomes |-> cash_outcomes,
                 ratios |-> arange(0, KellyStop, KellyStep),
                 i |-> 1,
                 geom_means |-> <<>>]
    /\ pc' = "kelly_loop"
    /\ UNCHANGED <<a, b, last>>

\* one iteration of "for ratio in ratios": the combined geometric mean of
\* [ratio, 1 - ratio] is appended, or the exception of weighted_geom_mean
\* ends the call
KellyIter ==
    /\ pc = "kelly_loop"
    /\ frame.i <= Len(frame.ratios)
    /\ LET ratio == frame.ratios[frame.i]
           dice_to_cash_ratio == <<ratio, MICRO - ratio>>
           geom_dict == weighted_geom_mean(frame.dice_outcomes, frame.cash_outcomes,
                                           dice_to_cash_ratio)
       IN  IF geom_dict.exc # ""
           THEN /\ last' = [op |-> "plot_kelly_optimal",
                            dice_outcomes |-> frame.dice_outcomes,
                            cash_outcomes |-> frame.cash_outcomes,
                            res |-> geom_dict]
                /\ frame' = NoFrame
                /\ pc' = "returned"
           ELSE /\ frame' = [frame EXCEPT
                                !.i = @ + 1,
                                !.geom_means = Append(@, geom_dict.val.geom_mean_combined)]
                /\ UNCHANGED <<last, pc>>
    /\ UNCHANGED <<a, b>>

\* after the loop: the maximum and its ratio are found and drawn with the
\* curve, and the function ends without a return statement
KellyFinish ==
    /\ pc = "kelly_loop"
    /\ frame.i > Len(frame.ratios)
    /\ LET max_mean == max(frame.geom_means)
           max_ratio == frame.ratios[index(frame.geom_means, max_mean)]
       IN  last' = [op |-> "plot_kelly_optimal",
                    dice_outcomes |-> frame.dice_outcomes,
                    cash_outcomes |-> frame.cash_outcomes,
                    res |-> Value(None),
                    fig |-> [x |-> scale(100 * MICRO, frame.ratios),
                             y |-> frame.geom_means,
                             max_ratio |-> max_ratio,
                             max_mean |-> max_mean]]
    /\ frame' = NoFrame
    /\ pc' = "returned"
    /\ UNCHANGED <<a, b>>

\* the longest outcome array given to plot_kelly_optimal
MaxKellyLen == 2

\* -0.5, 1.000003 and 1.5
KellyVals == {-Half, MICRO + 3, 3 * Half}

KellyArrays == SeqsUpTo(KellyVals, MaxKellyLen) \ {<<>>}

NextKelly ==
    \/ /\ pc = "idle"
       /\ \E dice_outcomes \in KellyArrays, cash_outcomes \in KellyArrays :
             KellyStart(dice_outcomes, cash_outcomes)
    \/ KellyIter
    \/ KellyFinish
    \/ Resume

\* plot_kelly_optimal alone, on plain outcome arrays
SpecKelly == Init /\ [][NextKelly]_vars

----------------------------------------------------------------------------
(* modules/nietzschesdemon.py, plot_median_growth(ratio, bet1, bet2,       *)
(* kelly_payoff, step_size): frame holds its arguments and locals while it *)
(* runs.  bet1 and bet2 are the caller's arrays, passed by reference: with *)
(* frame.of_bets they are a.outcomes and b.outcomes, and a write to them   *)
(* is a write to the caller's bets.                                        *)

\* x <= y instead of x < y
lt_or_equal(x, y) == ~isnan(x) /\ ~isnan(y) /\ x.v <= y.v

\* x < y of two floats, false when either is NaN
lt(x, y) == ~isnan(x) /\ ~isnan(y) /\ x.v < y.v

\* an array object that shares its data with arr
copy_alias(arr) == [alias |-> TRUE, v |-> arr]

\* ndarray.copy(): a new array object with the contents of arr
copy(arr) == [alias |-> FALSE, v |-> arr]

\* arr[0] = x
setfirst(arr, x) == [k \in 1..Len(arr) |-> IF k = 1 THEN x ELSE arr[k]]

\* np.sign(y - kelly_payoff) of a float y that may be NaN
sign(y, kelly_payoff) ==
    IF isnan(y) THEN NaN
    ELSE Num(IF y.v > kelly_payoff THEN 1 ELSE IF y.v < kelly_payoff THEN -1 ELSE 0)

\* np.where(np.diff(np.sign(np.array(y_values) - kelly_payoff)))[0]: the
\* positions, counted from 1, whose sign differs from the next one's; a
\* difference that is NaN counts as not zero
intersections(y_values, kelly_payoff) ==
    {k \in 1..(Len(y_values) - 1) :
        LET d == NSub(sign(y_values[k + 1], kelly_payoff), sign(y_values[k], kelly_payoff))
        IN  isnan(d) \/ d.v # 0}

\* the least element of a non-empty set of positions
first_of(S) == CHOOSE k \in S : \A j \in S : k <= j

\* the call: the lists are empty and the range of the loop is laid out.  A
\* call with an empty bet2 or with step_size 0 raises before the loop and
\* is not followed.
GrowthStart(of_bets, ratio, bet1, bet2, kelly_payoff, step_size) ==
    /\ pc = "idle"
    /\ Len(bet2) >= 1
    /\ step_size # 0
    /\ frame' = [fn |-> "plot_median_growth",
                 of_bets |-> of_bets,
                 ratio |-> ratio,
                 bet1 |-> bet1,
                 bet2 |-> bet2,
                 kelly_payoff |-> kelly_payoff,
                 step_size |-> step_size,
                 range |-> arange(bet2[1], 0, step_size),
                 k |-> 1,
                 broke |-> FALSE,
                 x_values |-> <<>>,
                 y_values |-> <<>>]
    /\ pc' = "growth_loop"
    /\ UNCHANGED <<a, b, last>>

\* the record of a plot_median_growth call that has ended with res
GrowthCall(res, fig) ==
    [op |-> "plot_median_growth",
     ratio |-> frame.ratio, kelly_payoff |-> frame.kelly_payoff,
     step_size |-> frame.step_size,
     x_values |-> frame.x_values, y_values |-> frame.y_values,
     res |-> res, fig |-> fig]

\* one iteration of "for i in np.arange(bet2[0], 0.0, step_size)"
GrowthIter ==
    /\ pc = "growth_loop"
    /\ ~frame.broke
    /\ frame.k <= Len(frame.range)
    /\ LET i == frame.range[frame.k]
           bet2_copy == copy(frame.bet2)
           bet2_iterating == setfirst(bet2_copy.v, i)
           bet2_after == IF bet2_copy.alias THEN bet2_iterating ELSE frame.bet2
           results == ratio_blend(frame.bet1, bet2_iterating, frame.ratio)
       IN  /\ b' = IF frame.of_bets THEN [b EXCEPT !.outcomes = bet2_after] ELSE b
           /\ IF results.exc # ""
              THEN /\ last' = GrowthCall(results, [t |-> "NoneType"])
                   /\ frame' = NoFrame
                   /\ pc' = "returned"
              ELSE LET arith_mean_bet2 == Percent(mean(bet2_iterating))
                       geom_mean_combined == NPercent(gmean(results.val))
                   IN  /\ frame' = [frame EXCEPT
                                       !.bet2 = bet2_after,
                                       !.k = @ + 1,
                                       !.broke = lt(geom_mean_combined, Num(0)),
                                       !.x_values = Append(@, arith_mean_bet2),
                                       !.y_values = Append(@, geom_mean_combined)]
                       /\ UNCHANGED <<last, pc>>
    /\ UNCHANGED a

\* after the loop: the first crossing of the Kelly payoff is looked up
\* (IndexError when there is none) and drawn with the curve; the function
\* ends without a return statement
GrowthFinish ==
    /\ pc = "growth_loop"
    /\ frame.broke \/ frame.k > Len(frame.range)
    /\ LET intersect_idx == intersections(frame.y_values, frame.kelly_payoff)
       IN  IF intersect_idx = {}
           THEN last' = GrowthCall(Raise("IndexError",
                                         "index 0 is out of bounds for axis 0 with size 0"),
                                   [t |-> "NoneType"])
           ELSE last' = GrowthCall(Value(None),
                                   [t |-> "figure",
                                    intersect_x |-> frame.x_values[first_of(intersect_idx)],
                                    intersect_y |-> frame.y_values[first_of(intersect_idx)]])
    /\ frame' = NoFrame
    /\ pc' = "returned"
    /\ UNCHANGED <<a, b>>

\* the longest array given to plot_median_growth
MaxGrowthLen == 2

\* -0.5, 0.5 and 1.5
GrowthVals == {-Half, Half, 3 * Half}

GrowthArrays == SeqsUpTo(GrowthVals, MaxGrowthLen) \ {<<>>}

\* [0.5, 0.5] and [1.5, -0.5]
GrowthRatios == { <<Half, Half>>, <<3 * Half, -Half>> }

\* 0 % and 20 %
KellyPayoffs == {0, 20 * MICRO}

\* -0.5, -0.25 and 0.25
StepSizes == {-Half, -(Half \div 2), Half \div 2}

NextGrowth ==
    \/ /\ pc = "idle"
       /\ \E ratio \in GrowthRatios, bet1 \in GrowthArrays, bet2 \in GrowthArrays,
             kelly_payoff \in KellyPayoffs, step_size \in StepSizes :
               GrowthStart(FALSE, ratio, bet1, bet2, kelly_payoff, step_size)
    \/ GrowthIter
    \/ GrowthFinish
    \/ Resume

\* plot_median_growth alone, on plain arrays
SpecGrowth == Init /\ [][NextGrowth]_vars

----------------------------------------------------------------------------
(* A session with the plots: two bets are built, and BetComparison,        *)
(* plot_kelly_optimal and plot_median_growth are called on them, the plot  *)
(* functions on a.outcomes and b.outcomes themselves.                      *)

\* the longest results list of these bets
MaxPlotLen == 1

\* 0.5 and 1.5
PlotVals == {Half, 3 * Half}

PlotResultLists == SeqsUpTo(PlotVals, MaxPlotLen) \ {<<>>}

\* weights 1 and 2
PlotWeightLists == SeqsUpTo({PyInt(1), PyInt(2)}, MaxPlotLen) \ {<<>>}

NextPlots ==
    \/ /\ pc = "idle"
       /\ \E slot \in {"a", "b"}, results \in PlotResultLists,
             weights \in PlotWeightLists :
               Build(slot, PyStr(slot), results, weights)
    \/ pc = "idle" /\ BothBuilt /\ \E ratio \in GrowthRatios : Combine(ratio)
    \/ pc = "idle" /\ BothBuilt /\ KellyStart(a.outcomes, b.outcomes)
    \/ /\ pc = "idle"
       /\ BothBuilt
       /\ \E ratio \in GrowthRatios, kelly_payoff \in KellyPayoffs,
             step_size \in StepSizes :
               GrowthStart(TRUE, ratio, a.outcomes, b.outcomes, kelly_payoff, step_size)
    \/ KellyIter
    \/ KellyFinish
    \/ GrowthIter
    \/ GrowthFinish
    \/ Resume

SpecPlots == Init /\ [][NextPlots]_vars

----------------------------------------------------------------------------
(* modules/sp500.py and modules/xo.py: the table of yearly returns.  A     *)
(* DataFrame is its rows in order, a row the cells of its columns; a cell  *)
(* of a float column is a float or NaN, a cell of a label column a text or *)
(* NaN (missing).  ReturnRange, which pd.cut makes, is a categorical       *)
(* column.  The caller keeps the table in a.                               *)

NegInf == [t |-> "-inf"]

PosInf == [t |-> "inf"]

\* float + float, float * float with nan propagation
NAdd(x, y) == IF isnan(x) \/ isnan(y) THEN NaN ELSE Num(x.v + y.v)

NMul(x, y) == IF isnan(x) \/ isnan(y) THEN NaN ELSE Num(FMul(x.v, y.v))

\* edge < x, for an edge that may be infinite and a float x that is not
edge_lt(edge, x) ==
    CASE edge.t = "-inf" -> TRUE
      [] edge.t = "inf" -> FALSE
      [] OTHER -> edge.v < x.v

\* pd.cut(x, bins, labels = labels) for one value: the label of the interval
\* (bins[i], bins[i + 1]] that holds x, NaN for NaN
cut(x, bins, labels) ==
    IF isnan(x) THEN NaN
    ELSE LET hits == {i \in 1..(Len(bins) - 1) :
                         edge_lt(bins[i], x) /\ ~edge_lt(bins[i + 1], x)}
         IN  IF hits = {} THEN NaN ELSE PyStr(labels[CHOOSE i \in hits : TRUE])

\* sp500.py: [-float('inf'), -0.15, 0, 0.15, 0.3, float('inf')]
bin_edges ==
    <<NegInf, Num(-15 * (MICRO \div 100)), Num(0), Num(15 * (MICRO \div 100)),
      Num(30 * (MICRO \div 100)), PosInf>>

bin_labels == <<"< -15%", "-15% to 0%", "0% to 15%", "15% to 30%", "> 30%">>

\* process_data from the joined table on: TotalReturn and ReturnRange
process_data(df_merged) ==
    LET total(i) == NAdd(df_merged[i].Return, df_merged[i].DividendYield)
    IN  [i \in 1..Len(df_merged) |->
            [Return |-> df_merged[i].Return,
             DividendYield |-> df_merged[i].DividendYield,
             TotalReturn |-> total(i),
             ReturnRange |-> cut(total(i), bin_edges, bin_labels)]]

\* xo.py: [float('-inf'), -.15, .0, .15, .30, float('inf')]
bins ==
    <<NegInf, Num(-15 * (MICRO \div 100)), Num(0), Num(15 * (MICRO \div 100)),
      Num(30 * (MICRO \div 100)), PosInf>>

\* plot_xo_sp500: the order of the categories
categories == <<"< -15%", "-15% to 0%", "0% to 15%", "15% to 30%", "> 30%">>

\* the dict of calculate_weighted_return, as <<key, value>> pairs
category_mapping(safe_haven) ==
    << <<"< -15%", safe_haven.outcomes[1]>>,
       <<"-15% to 0%", safe_haven.outcomes[2]>>,
       <<"0% to 15%", safe_haven.outcomes[3]>>,
       <<"15% to 30%", safe_haven.outcomes[4]>>,
       <<"> 30%", safe_haven.outcomes[5]>> >>

\* mapping.get(cell, NaN)
map_cell(cell, mapping) ==
    IF isnan(cell) \/ ~\E i \in 1..Len(mapping) : mapping[i][1] = cell.s
    THEN NaN
    ELSE Num(mapping[CHOOSE i \in 1..Len(mapping) : mapping[i][1] = cell.s][2])

\* Series.map of a categorical column maps the categories: when no two of
\* them get the same value and none gets NaN, the result is categorical
\* again, otherwise a column of floats
map_is_categorical(cats, mapping) ==
    /\ \A i \in 1..Len(cats) : \E j \in 1..Len(mapping) : mapping[j][1] = cats[i]
    /\ \A i, j \in 1..Len(cats) :
          i # j => map_cell(PyStr(cats[i]), mapping) # map_cell(PyStr(cats[j]), mapping)

\* pd.Categorical(values, categories = cats): a value that is no category
\* becomes NaN
Categorical(cell, cats) ==
    IF isnan(cell) \/ ~\E i \in 1..Len(cats) : cats[i] = cell.s THEN NaN ELSE cell

\* the columns calculate_weighted_return adds to, or replaces in, one row
weighted_row(row, mapping, weights, cats) ==
    LET WeightedReturn ==
            NAdd(NMul(row.TotalReturn, Num(weights[1])),
                 NMul(map_cell(row.ReturnRange, mapping), Num(weights[2])))
    IN  [Return |-> row.Return,
         DividendYield |-> row.DividendYield,
         TotalReturn |-> row.TotalReturn,
         ReturnRange |-> Categorical(row.ReturnRange, cats),
         WeightedReturn |-> WeightedReturn,
         WeightedReturnRange |-> cut(WeightedReturn, bins, cats)]

\* calculate_weighted_return(sp500, safe_haven, weights, categories); the
\* table sp500 has the ReturnRange of process_data, with the categories
\* bin_labels, and output_dir says whether ../output exists.  Besides what
\* the call gives, table is sp500_copy as the call left it.
calculate_weighted_return(sp500, safe_haven, weights, cats, output_dir) ==
    IF Len(safe_haven.outcomes) < 5
    THEN [res |-> Raise("IndexError", "list index out of range"), table |-> sp500]
    ELSE IF map_is_categorical(bin_labels, category_mapping(safe_haven))
    THEN [res |-> Raise("TypeError", "unsupported operand type(s) for *: 'Categorical' and 'float'"),
          table |-> sp500]
    ELSE LET sp500_copy ==
                 [i \in 1..Len(sp500) |->
                     weighted_row(sp500[i], category_mapping(safe_haven), weights, cats)]
         IN  IF ~output_dir
             THEN [res |-> Raise("OSError", "Cannot save file into a non-existent directory"),
                   table |-> sp500_copy]
             ELSE [res |-> Value(sp500_copy), table |-> sp500_copy]

\* the DataFrame the caller holds
DataFrame(rows) == [t |-> "DataFrame", rows |-> rows]

\* process_data(df_price, df_yield), from the joined table on; the caller
\* keeps what it returns
ProcessData(df_merged) ==
    /\ pc = "idle"
    /\ a' = DataFrame(process_data(df_merged))
    /\ last' = [op |-> "process_data", res |-> Value(process_data(df_merged))]
    /\ pc' = "returned"
    /\ UNCHANGED <<b, frame>>

\* calculate_weighted_return(a, safe_haven, weights, categories): it works
\* on sp500.copy(), so that the caller's table changes only if the copy is
\* the table itself
CalculateWeightedReturn(safe_haven, weights, output_dir) ==
    /\ pc = "idle"
    /\ isinstance(a, "DataFrame")
    /\ LET sp500_copy == copy(a.rows)
           call == calculate_weighted_return(sp500_copy.v, safe_haven, weights,
                                             categories, output_dir)
       IN  /\ a' = IF sp500_copy.alias THEN DataFrame(call.table) ELSE a
           /\ last' = [op |-> "calculate_weighted_return", sp500 |-> a.rows,
                       safe_haven |-> safe_haven, weights |-> weights,
                       output_dir |-> output_dir, res |-> call.res]
    /\ pc' = "returned"
    /\ UNCHANGED <<b, frame>>

\* the longest table
MaxRows == 2

\* the yearly price changes: NaN (the first year), -20 %, -15 %, 0 %, 30 %
\* and 35 %
ReturnVals ==
    {NaN, Num(-20 * (MICRO \div 100)), Num(-15 * (MICRO \div 100)), Num(0),
     Num(30 * (MICRO \div 100)), Num(35 * (MICRO \div 100))}

\* dividend yields of 0 % and 5 %
YieldVals == {Num(0), Num(5 * (MICRO \div 100))}

MergedTables ==
    SeqsUpTo([Return : ReturnVals, DividendYield : YieldVals], MaxRows) \ {<<>>}

\* a store of value (7 % in every range), an insurance (1000 % below -15 %,
\* -100 % otherwise) and a haven that pays differently in each range
SafeHavens ==
    { [title |-> "Store", outcomes |-> [i \in 1..5 |-> 7 * (MICRO \div 100)]],
      [title |-> "Insurance",
       outcomes |-> <<10 * MICRO, -MICRO, -MICRO, -MICRO, -MICRO>>],
      [title |-> "Hedge",
       outcomes |-> <<Half, MICRO \div 5, 0, -(MICRO \div 10), -(MICRO \div 5)>>] }

\* [0.9, 0.1] and [0.5, 0.5]
XoWeights == {<<9 * (MICRO \div 10), MICRO \div 10>>, <<Half, Half>>}

NextXo ==
    \/ pc = "idle" /\ \E df_merged \in MergedTables : ProcessData(df_merged)
    \/ /\ pc = "idle"
       /\ \E safe_haven \in SafeHavens, weights \in XoWeights,
             output_dir \in BOOLEAN :
               CalculateWeightedReturn(safe_haven, weights, output_dir)
    \/ Resume

SpecXo == Init /\ [][NextXo]_vars

----------------------------------------------------------------------------
(* modules/petersburgmerchant.py, investment_recovery_plot(loss_value), and *)
(* modules/plotmachine.py, investment_recovery(loss_value): the same body   *)
(* twice.  An entry of recovery_percent is kept in ten-thousandths of a     *)
(* percent, which is the fraction 1 / (1 + loss / 100) - 1 in millionths:   *)
(* the final * 100 changes the unit and 9900 % stays within 32 bits.        *)

\* x / y of two floats, y > 0 and at most 2.0: x * MICRO / y rounded to the
\* nearest millionth, in two steps of a thousand so that no intermediate
\* value leaves 32 bits
FDiv(x, y) ==
    LET q  == x \div y
        r  == x % y
        d1 == (r * KILO) \div y
        r1 == (r * KILO) % y
    IN  q * MICRO + d1 * KILO + RDiv(r1 * KILO, y)

\* range(-100, 0) as a list
loss_range == [i \in 1..100 |-> i - 101]

\* (1 / (1 + loss / 100) - 1) * 100 if loss != -100 else float('inf')
recovery(loss) ==
    IF loss # -100
    THEN Num(FDiv(MICRO, MICRO + RDiv(loss * MICRO, 100)) - MICRO)
    ELSE PosInf

recovery_percent == [i \in 1..100 |-> recovery(loss_range[i])]

\* list[i] of Python, i an int: from the front for i >= 0, from the end for
\* i < 0
getitem(list, i) ==
    LET k == IF i < 0 THEN i + Len(list) ELSE i
    IN  IF k >= 0 /\ k < Len(list)
        THEN Value(list[k + 1])
        ELSE Raise("IndexError", "list index out of range")

\* the body of both functions: the red point and the dashed lines to the
\* axes, or the exception of the first recovery_percent[1 - abs(loss_value)]
investment_recovery(loss_value) ==
    LET marked == getitem(recovery_percent, 1 - Abs(loss_value))
    IN  IF marked.exc # ""
        THEN [res |-> marked, fig |-> <<>>]
        ELSE [res |-> Value(None),
              fig |-> [ro |-> <<loss_value, marked.val>>,
                       down |-> <<loss_value, marked.val>>,
                       across |-> <<loss_value, marked.val>>]]

\* petersburgmerchant.investment_recovery_plot(loss_value)
InvestmentRecoveryPlot(loss_value) ==
    /\ pc = "idle"
    /\ last' = [op |-> "investment_recovery_plot", loss_value |-> loss_value,
                res |-> investment_recovery(loss_value).res,
                fig |-> investment_recovery(loss_value).fig]
    /\ pc' = "returned"
    /\ UNCHANGED <<a, b, frame>>

\* plotmachine.investment_recovery(loss_value)
InvestmentRecovery(loss_value) ==
    /\ pc = "idle"
    /\ last' = [op |-> "investment_recovery", loss_value |-> loss_value,
                res |-> investment_recovery(loss_value).res,
                fig |-> investment_recovery(loss_value).fig]
    /\ pc' = "returned"
    /\ UNCHANGED <<a, b, frame>>

\* the losses asked for: all of the table's and MaxLoss more at either end
MaxLoss == 3

LossValues == (-(100 + MaxLoss))..MaxLoss

NextRecovery ==
    \/ pc = "idle" /\ \E loss_value \in LossValues : InvestmentRecoveryPlot(loss_value)
    \/ pc = "idle" /\ \E loss_value \in LossValues : InvestmentRecovery(loss_value)
    \/ Resume

SpecRecovery == Init /\ [][NextRecovery]_vars

----------------------------------------------------------------------------
(* A session with bets of any name: besides a and b, the names of three    *)
(* attributes BetComparison.__init__ assigns itself.                       *)

AttributeNames == {PyStr("a"), PyStr("b"), PyStr("ratio"), PyStr("results"), PyStr("bet2_name")}

\* one outcome, 0.0 or 1.5
NamedResultLists == {<<0>>, <<3 * Half>>}

NextNames ==
    \/ /\ pc = "idle"
       /\ \E slot \in {"a", "b"}, name \in AttributeNames, results \in NamedResultLists :
               Build(slot, name, results, <<PyInt(1)>>)
    \/ pc = "idle" /\ BothBuilt /\ \E ratio \in GrowthRatios : Combine(ratio)
    \/ Resume

SpecNames == Init /\ [][NextNames]_vars

----------------------------------------------------------------------------
(* Properties of Bet, checked under SpecBuild *)

\* a call of the constructor has come back
BuildReturned == last.op = "Bet"

BuildSucceeded == BuildReturned /\ last.res.exc = ""

\* the weights given, as numbers
GivenWeights == [i \in 1..Len(last.weights) |-> last.weights[i].v]

\* how often x occurs in arr
Count(arr, x) == Cardinality({j \in 1..Len(arr) : arr[j] = x})

\* the sum of the weights of the results equal to x
WeightOf(x) ==
    SeqSum([j \in 1..Len(last.results) |->
                IF last.results[j] = x THEN GivenWeights[j] ELSE 0])

\* C1 as stated: for every accepted (results, weights), len(outcomes) is
\* sum(weights) and results[i] occurs exactly weights[i] times in outcomes
C1_Original ==
    BuildSucceeded =>
        /\ Len(last.res.val.outcomes) = SeqSum(GivenWeights)
        /\ \A i \in 1..Len(last.results) :
              Count(last.res.val.outcomes, last.results[i]) = GivenWeights[i]

\* C1 amended: for every accepted (results, weights), len(outcomes) is
\* sum(weights) and the value results[i] occurs in outcomes as often as the
\* weights of all the results equal to it add up to (weights[i] times when
\* no other result has the same value)
C1_OutcomeCounts ==
    BuildSucceeded =>
        /\ Len(last.res.val.outcomes) = SeqSum(GivenWeights)
        /\ \A i \in 1..Len(last.results) :
              /\ Count(last.res.val.outcomes, last.results[i]) = WeightOf(last.results[i])
              /\ (\A j \in 1..Len(last.results) :
                      j # i => last.results[j] # last.results[i])
                 => Count(last.res.val.outcomes, last.results[i]) = GivenWeights[i]

\* a bet built from two equal results with different weights
C1_Witness ==
    /\ BuildSucceeded
    /\ Len(last.results) = 2
    /\ last.results[1] = last.results[2]
    /\ GivenWeights = <<1, 2>>
    /\ Len(last.res.val.outcomes) = 3

\* what C2 calls an integer >= 1: a Python int that is at least 1
IsPositiveInt(w) == w.t = "int" /\ w.v >= 1

\* the inputs C2 says are refused
C2_Refused ==
    \/ Len(last.results) # Len(last.weights)
    \/ Len(last.results) < 1
    \/ Len(last.results) > 6
    \/ \E i \in 1..Len(last.weights) : ~IsPositiveInt(last.weights[i])
    \/ last.name.t # "str"

\* C2: the constructor raises its assertion error and yields no Bet for
\* lists of different length, for fewer than 1 or more than 6 results, for a
\* weight that is not an int >= 1 and for a name that is not a str; on every
\* other input it returns a Bet
C2_BuildFailsExactlyOnInvalidInput ==
    BuildReturned =>
        /\ C2_Refused =>
              last.res.exc = "AssertionError" /\ last.res.val = None
        /\ ~C2_Refused =>
              last.res.exc = "" /\ last.res.val.t = "Bet"

\* weights [1, 1.5] are refused although everything else is in order
C2_Witness ==
    /\ BuildReturned
    /\ last.name = PyStr("a")
    /\ Len(last.results) = 2
    /\ last.weights = <<PyInt(1), PyFloat(3 * Half)>>
    /\ last.res.exc = "AssertionError"

\* the weights of the results before the i-th
RECURSIVE Offset(_, _)
Offset(w, i) == IF i <= 1 THEN 0 ELSE w[i - 1] + Offset(w, i - 1)

\* C9: outcomes is results[0] weights[0] times, then results[1] weights[1]
\* times, and so on in input order, and nothing else
C9_OutcomesInInputOrder ==
    BuildSucceeded =>
        /\ Len(last.res.val.outcomes) = Offset(GivenWeights, Len(GivenWeights) + 1)
        /\ \A i \in 1..Len(last.results) : \A k \in 1..GivenWeights[i] :
              last.res.val.outcomes[Offset(GivenWeights, i) + k] = last.results[i]

\* a bet of two different results, the first of weight 2
C9_Witness ==
    /\ BuildSucceeded
    /\ Len(last.results) = 2
    /\ last.results[1] > last.results[2]
    /\ GivenWeights = <<2, 1>>
    /\ last.res.val.outcomes = <<last.results[1], last.results[1], last.results[2]>>

----------------------------------------------------------------------------
(* Properties of BetComparison and of the blend functions, checked under   *)
(* Spec                                                                    *)

BothBets == isinstance(a, "Bet") /\ isinstance(b, "Bet")

\* BetComparison(a, b, ratio) has come back, a and b being bets
CombineReturned == last.op = "BetComparison" /\ BothBets

\* it came back with a BetComparison
Blended == CombineReturned /\ last.res.exc = ""

\* an attribute of that BetComparison
Attr(attr) == GetAttr(last.res.val.dict, attr)

\* the call failed on one of the two assertions about the ratio
RatioRefused ==
    /\ last.res.exc = "AssertionError"
    /\ last.res.msg \in {"Ratio must have exactly two elements.",
                         "The elements of ratio must sum up to 1."}

\* |sum(ratio) - 1| in units of 1e-9
RatioSumErrorNano == Abs(SeqSum(last.ratio) - MICRO) * 1000

\* C3 as stated: a ratio that has not exactly two elements or whose sum is
\* more than 1e-9 away from 1 is refused, and a two-element ratio is
\* accepted only when its sum is within 1e-9 of 1
C3_Original ==
    CombineReturned =>
        /\ (Len(last.ratio) # 2 \/ RatioSumErrorNano > 1) => RatioRefused
        /\ (Len(last.ratio) = 2 /\ ~RatioRefused) => RatioSumErrorNano <= 1

\* C3 amended: the tolerance is that of numpy.isclose, 1e-8 + 1e-5 * 1 =
\* 1.001e-5: a ratio is refused exactly when it has not two elements or its
\* sum is more than 1.001e-5 away from 1
C3_RatioTolerance ==
    CombineReturned =>
        RatioRefused <=> (Len(last.ratio) # 2 \/ RatioSumErrorNano > 10010)

\* the ratio [0.5, 0.500005] is accepted, [0.5, 0.500011] has been refused
C3_Witness ==
    /\ CombineReturned
    /\ last.ratio = <<Half, Half + 5>>
    /\ ~RatioRefused

\* C4 as stated: BetComparison(a, b, ratio) fails whenever a.outcomes and
\* b.outcomes differ in length, also when one of them has one element.
\* Any exception counts as the failure, and the two bets carry different
\* names, so that both are the ones weighted_average looks up.
C4_Original ==
    (CombineReturned /\ a.name # b.name /\ Len(a.outcomes) # Len(b.outcomes))
        => last.res.exc # ""

\* C5 as stated: whatever the names of a and b, results has the length of
\* a.outcomes and results[i] = ratio[0] * a.outcomes[i] + ratio[1] * b.outcomes[i]
C5_Original ==
    (Blended /\ Len(a.outcomes) = Len(b.outcomes)) =>
        /\ Len(Attr("results")) = Len(a.outcomes)
        /\ \A i \in 1..Len(a.outcomes) :
              Attr("results")[i] = FMul(last.ratio[1], a.outcomes[i])
                                   + FMul(last.ratio[2], b.outcomes[i])

AllPositive(arr) == \A i \in 1..Len(arr) : arr[i] > 0

\* C6 as stated: no bet and no blend with an outcome <= 0 has a geom_mean
C6_Original ==
    /\ isinstance(a, "Bet") => AllPositive(a.outcomes)
    /\ isinstance(b, "Bet") => AllPositive(b.outcomes)
    /\ Blended => AllPositive(Attr("results"))

\* -100 %
MinusHundred == Num(-100 * MICRO)

\* what the geometric mean g of arr is, by the sign of the outcomes
GeomMeanBySign(arr, g) ==
    /\ (\E i \in 1..Len(arr) : arr[i] < 0) => isnan(g)
    /\ (\A i \in 1..Len(arr) : arr[i] >= 0) => ~isnan(g)
    /\ ((\A i \in 1..Len(arr) : arr[i] >= 0) /\ (\E i \in 1..Len(arr) : arr[i] = 0))
          => g = MinusHundred
    /\ AllPositive(arr) => g.v > MinusHundred.v

\* C6 amended: an outcome <= 0 makes nothing fail; the geometric mean of a
\* bet and of a blend is NaN when an outcome is negative, -100 % when an
\* outcome is 0 and none is negative, and a number above -100 % otherwise
C6_GeomMeanOfNonPositive ==
    /\ isinstance(a, "Bet") => GeomMeanBySign(a.outcomes, a.geom_mean)
    /\ isinstance(b, "Bet") => GeomMeanBySign(b.outcomes, b.geom_mean)
    /\ Blended => GeomMeanBySign(Attr("results"), Attr("geom_mean_combined"))
    /\ (last.op = "Bet" /\ ~C2_Refused) => last.res.exc = ""

\* a bet with an outcome 0 and geom_mean -100 %, and a blend of it with a
\* negative outcome and geom_mean_combined NaN
C6_Witness ==
    /\ Blended
    /\ \E i \in 1..Len(a.outcomes) : a.outcomes[i] = 0
    /\ a.geom_mean = MinusHundred
    /\ \E i \in 1..Len(Attr("results")) : Attr("results")[i] < 0
    /\ isnan(Attr("geom_mean_combined"))

\* C7 as stated: cost and net subtract the means of both a and b from the
\* combined mean, in BetComparison and in weighted_arith_mean and
\* weighted_geom_mean
C7_Original ==
    /\ Blended =>
          /\ Attr("cost") = Attr("arith_mean_combined") - a.arith_mean - b.arith_mean
          /\ Attr("net") = NSub(NSub(Attr("geom_mean_combined"), a.geom_mean), b.geom_mean)
    /\ (last.op = "weighted_arith_mean" /\ last.res.exc = "") =>
          last.res.val.cost
              = last.res.val.arith_mean_combined - a.arith_mean - b.arith_mean
    /\ (last.op = "weighted_geom_mean" /\ last.res.exc = "") =>
          last.res.val.net
              = NSub(NSub(last.res.val.geom_mean_combined, a.geom_mean), b.geom_mean)

\* C8 as stated: with ratio [1, 0] and outcomes of equal length the blend is
\* a.outcomes, its means are those of a, and cost is -b.arith_mean
C8_Original ==
    (Blended /\ last.ratio = <<MICRO, 0>> /\ Len(a.outcomes) = Len(b.outcomes)) =>
        /\ Attr("results") = a.outcomes
        /\ Attr("arith_mean_combined") = a.arith_mean
        /\ Attr("geom_mean_combined") = a.geom_mean
        /\ Attr("cost") = -b.arith_mean

\* C10 as stated: no BetComparison has a ratio with a negative element
C10_Original ==
    Blended => last.ratio[1] >= 0 /\ last.ratio[2] >= 0

\* C10 amended: every BetComparison has the ratio it was given, of two
\* elements whose sum is within 1.001e-5 of 1; their sign is not checked, and
\* a ratio of two elements that sum to 1, one of them negative, is accepted
C10_RatioOfBlend ==
    /\ Blended =>
          /\ Attr("ratio") = PyList(last.ratio)
          /\ Len(last.ratio) = 2
          /\ Abs(last.ratio[1] + last.ratio[2] - MICRO) <= 10
    /\ ( /\ CombineReturned
         /\ Len(last.ratio) = 2
         /\ last.ratio[1] + last.ratio[2] = MICRO
         /\ last.ratio[1] < 0 \/ last.ratio[2] < 0 )
       => ~RatioRefused

\* a BetComparison of ratio [1.5, -0.5]
C10_Witness ==
    /\ Blended
    /\ last.ratio = <<3 * Half, -Half>>
    /\ Attr("ratio").v[2] < 0

----------------------------------------------------------------------------
(* Properties of plot_kelly_optimal, checked under SpecKelly *)

\* plot_kelly_optimal has come back
KellyReturned == last.op = "plot_kelly_optimal"

\* it came back having drawn its figure
KellyDrawn == KellyReturned /\ last.res.exc = ""

\* x >= y of two floats, false when either is NaN
ge(x, y) == ~isnan(x) /\ ~isnan(y) /\ x.v >= y.v

\* the k-th ratio of the grid 0, 0.01, ..., 1
GridRatio(k) == (k - 1) * KellyStep

\* the combined geometric mean of [r, 1 - r], from the blend itself
GeomMeanAt(r) ==
    NPercent(gmean(add(scale(r, last.dice_outcomes),
                       scale(MICRO - r, last.cash_outcomes))))

\* the least grid position whose geometric mean is g
FirstAt(g) ==
    CHOOSE k \in 1..Len(last.fig.y) :
        last.fig.y[k] = g /\ \A j \in 1..(k - 1) : last.fig.y[j] # g

\* the ratio drawn as the optimum is the first ratio, in ascending order,
\* whose geometric mean is the maximum of the curve
FirstMaximum ==
    \A k \in 1..Len(last.fig.y) :
        (\A j \in 1..Len(last.fig.y) : ge(last.fig.y[k], last.fig.y[j]))
            => /\ last.fig.max_mean = last.fig.y[k]
               /\ last.fig.max_ratio = GridRatio(FirstAt(last.fig.y[k]))

\* dice_outcomes and cash_outcomes are the same constant array
FlatInputs ==
    /\ last.dice_outcomes = last.cash_outcomes
    /\ \A i \in 1..Len(last.dice_outcomes) :
          last.dice_outcomes[i] = last.dice_outcomes[1]

FlatBlends ==
    \A k \in 1..Len(last.fig.y) :
        add(scale(GridRatio(k), last.dice_outcomes),
            scale(MICRO - GridRatio(k), last.cash_outcomes)) = last.dice_outcomes

KellyGrid ==
    /\ Len(last.fig.x) = 101
    /\ Len(last.fig.y) = 101
    /\ \A k \in 1..Len(last.fig.x) : last.fig.x[k] = 100 * GridRatio(k)
    /\ last.fig.x[1] = 0
    /\ last.fig.x[Len(last.fig.x)] = 100 * MICRO
    /\ \A k \in 1..Len(last.fig.y) : last.fig.y[k] = GeomMeanAt(GridRatio(k))

\* C12 as stated: the sweep covers the grid and returns the triple
\* (optimal_ratio, optimal_geom_mean, full_curve), optimal_geom_mean being
\* >= every geometric mean of the curve
C12_Original ==
    KellyDrawn =>
        /\ KellyGrid
        /\ last.res.val
             = [t |-> "tuple",
                items |-> << last.fig.max_ratio, last.fig.max_mean,
                             [k \in 1..Len(last.fig.y) |->
                                 <<GridRatio(k), last.fig.y[k]>>] >>]
        /\ \A k \in 1..Len(last.fig.y) : ge(last.fig.max_mean, last.fig.y[k])

\* C12 amended: the sweep covers the grid and returns None; the curve and
\* its maximum are drawn, not returned.  The maximum is >= every geometric
\* mean of the curve that is not NaN, unless the one at ratio 0 is NaN:
\* then the maximum is NaN.
C12_KellyCurve ==
    KellyDrawn =>
        /\ KellyGrid
        /\ last.res.val = None
        /\ \E k \in 1..Len(last.fig.y) : last.fig.max_mean = last.fig.y[k]
        /\ isnan(last.fig.y[1]) => isnan(last.fig.max_mean)
        /\ ~isnan(last.fig.y[1]) =>
              \A k \in 1..Len(last.fig.y) :
                  isnan(last.fig.y[k]) \/ ge(last.fig.max_mean, last.fig.y[k])

\* a sweep that returned None and drew a curve of 101 points whose maximum
\* is a number and on which a later geometric mean is NaN
C12_Witness ==
    /\ KellyDrawn
    /\ last.res.val = None
    /\ Len(last.fig.y) = 101
    /\ ~isnan(last.fig.max_mean)
    /\ \E k \in 1..Len(last.fig.y) : isnan(last.fig.y[k])

----------------------------------------------------------------------------
(* Construction, checked under Spec *)

\* C13 as stated: a constructor that fails has assigned no field of the new
\* object, its validations all standing before the first assignment; and an
\* object the caller obtains has all its fields
C13_Original ==
    /\ (last.op \in {"Bet", "BetComparison"} /\ last.res.exc # "") =>
          (last.self = <<>> /\ last.res.val = None)
    /\ (last.op = "Bet" /\ last.res.exc = "") => Len(last.self) = 6
    /\ Blended =>
          \A attr \in {"bet1_name", "bet2_name", "ratio", "arith_mean_combined",
                       "geom_mean_combined", "cost", "net", "results"} :
              HasKey(last.self, PyStr(attr))

----------------------------------------------------------------------------
(* Properties of plot_median_growth, checked under SpecGrowth *)

\* plot_median_growth is running
GrowthRunning == frame.fn = "plot_median_growth"

\* the values of i of the iterations made so far
Swept == [j \in 1..(frame.k - 1) |-> frame.range[j]]

\* a geometric mean that is a number below 0
Below0(y) == ~isnan(y) /\ y.v < 0

\* x_values and y_values grow together, and the loop has stopped exactly if
\* the geometric mean recorded last is below 0
GrowthLists ==
    /\ Len(frame.x_values) = Len(frame.y_values)
    /\ Len(frame.y_values) = Len(Swept)
    /\ frame.broke <=>
          /\ frame.y_values # <<>>
          /\ Below0(frame.y_values[Len(frame.y_values)])

RangeSize ==
    IF (frame.bet2[1] > 0) = (frame.step_size < 0) /\ frame.bet2[1] # 0
    THEN CeilDiv(Abs(frame.bet2[1]), Abs(frame.step_size))
    ELSE 0

----------------------------------------------------------------------------
(* Frame of the calls, checked under SpecPlots *)

\* the arrays a running plot function was given are what they were
ArgumentsKept ==
    (frame.fn # "" /\ frame'.fn = frame.fn) =>
        IF frame.fn = "plot_kelly_optimal"
        THEN /\ frame'.dice_outcomes = frame.dice_outcomes
             /\ frame'.cash_outcomes = frame.cash_outcomes
        ELSE /\ frame'.bet1 = frame.bet1
             /\ frame'.bet2 = frame.bet2
             /\ frame'.ratio = frame.ratio

\* C14: no step of BetComparison, plot_kelly_optimal or plot_median_growth
\* changes a bet that has been built (its name, results, weights, outcomes,
\* arith_mean and geom_mean) or an array that was passed in
C14_NoSideEffects ==
    [][ /\ isinstance(a, "Bet") => a' = a
        /\ isinstance(b, "Bet") => b' = b
        /\ ArgumentsKept ]_vars

\* plot_median_growth has run three iterations on the outcomes of the two
\* bets, after which b.outcomes is still what calculate_outcomes made of b
C14_Witness ==
    /\ BothBuilt
    /\ frame.fn = "plot_median_growth"
    /\ frame.of_bets
    /\ Len(frame.y_values) = 3
    /\ frame.bet2 = b.outcomes
    /\ b.outcomes = calculate_outcomes(b.results, b.weights)

----------------------------------------------------------------------------
(* Means of a constant distribution, checked under SpecBuild *)

\* a bet has been built whose outcomes are all one value above 0
ConstantOutcomes ==
    /\ BuildSucceeded
    /\ \A i \in 1..Len(last.res.val.outcomes) :
          last.res.val.outcomes[i] = last.res.val.outcomes[1]
    /\ last.res.val.outcomes[1] > 0

RoundingSlack == 100 * 8

----------------------------------------------------------------------------
(* The blend implementations side by side, checked under Spec *)

\* C17 as stated: for outcomes of equal length, and a ratio BetComparison
\* accepts, _weighted_average, combined_outcomes and BetComparison give the
\* same blended array, and the means, cost and net of BetComparison are
\* those of weighted_arith_mean and weighted_geom_mean
C17_Original ==
    (Blended /\ Len(a.outcomes) = Len(b.outcomes)) =>
        /\ _weighted_average(a.outcomes, b.outcomes, last.ratio).val
              = combined_outcomes(a.outcomes, b.outcomes, last.ratio).val
        /\ Attr("results") = combined_outcomes(a.outcomes, b.outcomes, last.ratio).val
        /\ Attr("arith_mean_combined")
              = weighted_arith_mean(a.outcomes, b.outcomes, last.ratio).val.arith_mean_combined
        /\ Attr("cost") = weighted_arith_mean(a.outcomes, b.outcomes, last.ratio).val.cost
        /\ Attr("geom_mean_combined")
              = weighted_geom_mean(a.outcomes, b.outcomes, last.ratio).val.geom_mean_combined
        /\ Attr("net") = weighted_geom_mean(a.outcomes, b.outcomes, last.ratio).val.net

----------------------------------------------------------------------------
(* Properties of the return tables, checked under SpecXo *)

\* a call of calculate_weighted_return has come back
XoReturned == last.op = "calculate_weighted_return"

\* the cell of the k-th category
IsCategory(cell, k) == ~isnan(cell) /\ cell.s = categories[k]

\* C19 as stated: calculate_weighted_return gives every row whose
\* ReturnRange is the k-th category the WeightedReturn weights[0] *
\* TotalReturn + weights[1] * safe_haven['outcomes'][k]; the table it
\* returns has the rows of its input in their order, TotalReturn unchanged,
\* and the caller's table is not modified (the directory it writes its CSV
\* file to exists)
C19_Original ==
    (XoReturned /\ last.output_dir) =>
        /\ last.res.exc = ""
        /\ Len(last.res.val) = Len(last.sp500)
        /\ \A i \in 1..Len(last.sp500) :
              /\ last.res.val[i].TotalReturn = last.sp500[i].TotalReturn
              /\ \A k \in 1..5 :
                    IsCategory(last.sp500[i].ReturnRange, k) =>
                        last.res.val[i].WeightedReturn
                          = NAdd(NMul(Num(last.weights[1]), last.sp500[i].TotalReturn),
                                 Num(FMul(last.weights[2], last.safe_haven.outcomes[k])))
        /\ a.rows = last.sp500

\* the label says where the value lies
Describes(label, x) ==
    CASE label = "< -15%" -> x < -15 * (MICRO \div 100)
      [] label = "-15% to 0%" -> -15 * (MICRO \div 100) <= x /\ x <= 0
      [] label = "0% to 15%" -> 0 <= x /\ x <= 15 * (MICRO \div 100)
      [] label = "15% to 30%" -> 15 * (MICRO \div 100) <= x /\ x <= 30 * (MICRO \div 100)
      [] label = "> 30%" -> x > 30 * (MICRO \div 100)
      [] OTHER -> FALSE

\* a value that is not missing has a label, and the label describes it
Labelled(x, cell) == ~isnan(x) => (~isnan(cell) /\ Describes(cell.s, x.v))

\* C20 as stated: the binning gives every return that is not missing one of
\* the five labels, and the label describes the value, '< -15%' only a
\* value strictly below -0.15 and '> 30%' only one strictly above 0.30;
\* ReturnRange (sp500) and WeightedReturnRange (xo) use the same edges and
\* labels
C20_Original ==
    /\ bins = bin_edges
    /\ categories = bin_labels
    /\ isinstance(a, "DataFrame") =>
          \A i \in 1..Len(a.rows) : Labelled(a.rows[i].TotalReturn, a.rows[i].ReturnRange)
    /\ (XoReturned /\ last.res.exc = "") =>
          \A i \in 1..Len(last.res.val) :
              Labelled(last.res.val[i].WeightedReturn, last.res.val[i].WeightedReturnRange)

----------------------------------------------------------------------------
(* Properties of the recovery chart, checked under SpecRecovery *)

\* a call of one of the two recovery functions has come back
RecoveryReturned == last.op \in {"investment_recovery_plot", "investment_recovery"}

\* C21 as stated: for a loss_value L in -99..-1, the recovery percentage
\* the function reads from its table and marks on the chart is the entry
\* computed for a loss of exactly L percent, and it is finite
C21_Original ==
    (RecoveryReturned /\ last.loss_value \in -99..-1) =>
        /\ last.res.exc = ""
        /\ last.fig.ro = <<last.loss_value, recovery(last.loss_value)>>
        /\ last.fig.ro[2].t = "num"

----------------------------------------------------------------------------
(* The attributes of a BetComparison, checked under SpecNames *)

\* that BetComparison has the attribute
HasAttr(attr) == HasKey(last.res.val.dict, PyStr(attr))

\* C22 as stated: after BetComparison(a, b, ratio), whatever names the two
\* bets carry, the attribute named a.name is a and the one named b.name is
\* b, and ratio, arith_mean_combined, geom_mean_combined, cost, net and
\* results hold the ratio and the values of the blend; a name never makes
\* the construction fail or replaces one of these attributes
C22_Original ==
    CombineReturned =>
        /\ last.res.exc = ""
        /\ HasAttr(a.name) /\ Attr(a.name) = a
        /\ HasAttr(b.name) /\ Attr(b.name) = b
        /\ Attr("ratio") = PyList(last.ratio)
        /\ Attr("results") = combined_outcomes(a.outcomes, b.outcomes, last.ratio).val
        /\ Attr("arith_mean_combined")
              = weighted_arith_mean(a.outcomes, b.outcomes, last.ratio).val.arith_mean_combined
        /\ Attr("cost") = weighted_arith_mean(a.outcomes, b.outcomes, last.ratio).val.cost
        /\ Attr("geom_mean_combined")
              = weighted_geom_mean(a.outcomes, b.outcomes, last.ratio).val.geom_mean_combined
        /\ Attr("net") = weighted_geom_mean(a.outcomes, b.outcomes, last.ratio).val.net

----------------------------------------------------------------------------
(* The arithmetic mean of a blend, checked under Spec *)

\* ratio[0] * x + ratio[1] * y
RatioWeighted(ratio, x, y) == FMul(ratio[1], x) + FMul(ratio[2], y)

\* the ratio of the call sums to 1 and the outcomes of a and b are equally many
UnitBlend ==
    /\ BothBets
    /\ Len(last.ratio) = 2
    /\ SeqSum(last.ratio) = MICRO
    /\ Len(a.outcomes) = Len(b.outcomes)

\* C23 as stated: for a ratio that sums to 1 and outcomes of equal length,
\* arith_mean_combined = ratio[0] * a.arith_mean + ratio[1] * b.arith_mean
\* and cost = -(ratio[1] * a.arith_mean + ratio[0] * b.arith_mean), in
\* BetComparison and in weighted_arith_mean
C23_Original ==
    /\ (Blended /\ UnitBlend) =>
          /\ Attr("arith_mean_combined")
                = RatioWeighted(last.ratio, a.arith_mean, b.arith_mean)
          /\ Attr("cost")
                = -RatioWeighted(last.ratio, b.arith_mean, a.arith_mean)
    /\ (last.op = "weighted_arith_mean" /\ last.res.exc = "" /\ UnitBlend) =>
          /\ last.res.val.arith_mean_combined
                = RatioWeighted(last.ratio, a.arith_mean, b.arith_mean)
          /\ last.res.val.cost
                = -RatioWeighted(last.ratio, b.arith_mean, a.arith_mean)

----------------------------------------------------------------------------
(* What the blend functions of kellycriterion refuse, checked under Spec *)

\* one of the three functions has come back
BlendReturned ==
    /\ BothBets
    /\ last.op \in {"_weighted_average", "weighted_arith_mean", "weighted_geom_mean"}

\* C24 as stated: _weighted_average, weighted_arith_mean and
\* weighted_geom_mean each fail when the two outcome arrays differ in
\* length and each fail when the ratio does not sum to 1, and an input one
\* of them accepts all three accept
C24_Original ==
    BlendReturned =>
        /\ Len(a.outcomes) # Len(b.outcomes) => last.res.exc # ""
        /\ ~isclose(SeqSum(last.ratio), MICRO) => last.res.exc # ""
        /\ last.res.exc = "" =>
              /\ _weighted_average(a.outcomes, b.outcomes, last.ratio).exc = ""
              /\ weighted_arith_mean(a.outcomes, b.outcomes, last.ratio).exc = ""
              /\ weighted_geom_mean(a.outcomes, b.outcomes, last.ratio).exc = ""

====
